---- MODULE Spec2Model ----
(***************************************************************************)
(* State-machine model of the FTC portal (src/main.py): the process-wide   *)
(* session globals, the PostgreSQL database behind them, the provisioning  *)
(* handlers of LoginFrame (attemptLogin, attemptJoin, attemptCreateTeam),  *)
(* FtcPortalApp.showFrame / logout and the handlers of AdminFrame.         *)
(* Every handler runs to completion as one action.                         *)
(***************************************************************************)
EXTENDS Integers, Sequences, FiniteSets, TLC

(***************************************************************************)
(* Bounds of the model.                                                    *)
(***************************************************************************)
\* Users.user_id is a SERIAL; inserts are disabled once the sequence passes this.
MaxUserId == 3
\* Connections that were replaced without being closed (connectDb overwrites
\* the global); a handler that would orphan one more is disabled at the cap.
MaxLeaked == 1
\* Meetings.meeting_id, Guides.guide_id and GuideVideos.video_id are SERIALs;
\* inserts are disabled once the table's sequence passes this.
MaxContentId == 1

(***************************************************************************)
(* Input domains.                                                          *)
(***************************************************************************)
Usernames == {"alice", "bob"}
Passwords == {"pw1", "pw2"}
GoodUrl == "postgresql://u:p@host/db"
DownUrl == "postgresql://u:p@down/db"
BadUrl == "host/db"
UrlInputs == {"", BadUrl, GoodUrl, DownUrl}
UsernameInputs == Usernames \cup {""}
PasswordInputs == Passwords \cup {""}
TeamNumberInputs == {"", "abc", "254", "99999999999", "0", "-7"}
TeamNameInputs == {"", "RoboDevils"}
TeamPasswordInputs == {"", "teampw"}
NewTeamNameInputs == {"", "Renamed"}
NewTeamPasswordInputs == {"", "newpw"}
Salts == {"s1"}
\* the title field of the meeting dialog
MeetingTitleInputs == {"", "Kickoff"}
\* simpledialog.askstring for a guide topic: "cancel" stands for None
TopicInputs == {"cancel", "", "Drivetrain"}
\* the URL and title fields of the video dialog
VideoUrlInputs == {"", "ftp://v", "https://v"}
VideoTitleInputs == {"Intro"}
\* outcomes of the GET against the FTC Scout API
ApiOutcomes == {"200_team", "200_nodata", "200_undecodable", "200_null", "404", "500",
                "transport"}

(***************************************************************************)
(* Python values.                                                          *)
(***************************************************************************)
\* None for the optional globals: the empty sequence; a value v is <<v>>.
None == << >>
Some(v) == <<v>>
\* SQL NULL in an integer column (SERIAL values start at 1)
NULL == 0
\* iid Tk gives the "Error loading ..." row of a Treeview (not a user_id)
ErrIid == 0
\* Treeview.focus() when nothing is selected
NoSel == -1

VARIABLES
    byteaOutput,      \* server setting that renders a bytea value as text
    db,               \* the database behind GoodUrl
    dbConnection,     \* global dbConnection: "None" or "open"
    leaked,           \* connections still open that no global refers to
    currentUser,      \* global currentUser
    teamInfo,         \* global teamInfo
    dbUrlUsed,        \* global dbUrlUsed ("" when None)
    hasConfig,        \* LoginFrame.hasConfig
    topFrame,         \* the frame raised last
    pendingUsersTree, \* AdminFrame.pendingUsersTree: iids
    activeUsersTree,  \* AdminFrame.activeUsersTree: [iid, is_admin]
    roleMap,          \* AdminFrame.roleMap: [role_name, role_id]
    last,             \* the handler that ran last and the outcome it showed
    race              \* two other clients inside attemptCreateTeam: the statement each
                      \* runs next and the role_id it looked up

vars == <<byteaOutput, db, dbConnection, leaked, currentUser, teamInfo, dbUrlUsed,
          hasConfig, topFrame, pendingUsersTree, activeUsersTree, roleMap, last, race>>

adminTrees == <<pendingUsersTree, activeUsersTree, roleMap>>

(***************************************************************************)
(* The schema script of createDatabaseSchema.                              *)
(***************************************************************************)
TableNames == {"TeamInfo", "Roles", "Users", "Meetings", "Attendance", "Guides", "GuideVideos"}
SeedRoles == <<"Member", "Software Lead", "Mechanical Lead", "Outreach Lead", "Admin">>

SchemaCommands ==
    << [k |-> "drop", a |-> "GuideVideos"], [k |-> "drop", a |-> "Guides"],
       [k |-> "drop", a |-> "Attendance"], [k |-> "drop", a |-> "Meetings"],
       [k |-> "drop", a |-> "Users"], [k |-> "drop", a |-> "Roles"],
       [k |-> "drop", a |-> "TeamInfo"],
       [k |-> "create", a |-> "TeamInfo"], [k |-> "create", a |-> "Roles"],
       [k |-> "create", a |-> "Users"], [k |-> "create", a |-> "Meetings"],
       [k |-> "create", a |-> "Attendance"], [k |-> "create", a |-> "Guides"],
       [k |-> "create", a |-> "GuideVideos"],
       [k |-> "seed", a |-> SeedRoles[1]], [k |-> "seed", a |-> SeedRoles[2]],
       [k |-> "seed", a |-> SeedRoles[3]], [k |-> "seed", a |-> SeedRoles[4]],
       [k |-> "seed", a |-> SeedRoles[5]] >>

NumCommands == Len(SchemaCommands)

\* a database with no table at all
EmptyDb ==
    [tables |-> {}, TeamInfo |-> {}, Roles |-> {}, Users |-> {},
     Meetings |-> {}, Attendance |-> {}, Guides |-> {}, GuideVideos |-> {},
     usersSeq |-> 1, rolesSeq |-> 1, meetingsSeq |-> 1, guidesSeq |-> 1,
     videosSeq |-> 1]

\* (variant) a drop that leaves the rows of the table behind
DropTableKeepsRows(d, t) == [d EXCEPT !.tables = @ \ {t}]

\* DROP TABLE IF EXISTS t CASCADE: the table, its rows and its SERIAL sequence go
DropTable(d, t) ==
    [d EXCEPT !.tables = @ \ {t},
              !.TeamInfo = IF t = "TeamInfo" THEN {} ELSE @,
              !.Roles = IF t = "Roles" THEN {} ELSE @,
              !.Users = IF t = "Users" THEN {} ELSE @,
              !.Meetings = IF t = "Meetings" THEN {} ELSE @,
              !.Attendance = IF t = "Attendance" THEN {} ELSE @,
              !.Guides = IF t = "Guides" THEN {} ELSE @,
              !.GuideVideos = IF t = "GuideVideos" THEN {} ELSE @,
              !.usersSeq = IF t = "Users" THEN 1 ELSE @,
              !.rolesSeq = IF t = "Roles" THEN 1 ELSE @,
              !.meetingsSeq = IF t = "Meetings" THEN 1 ELSE @,
              !.guidesSeq = IF t = "Guides" THEN 1 ELSE @,
              !.videosSeq = IF t = "GuideVideos" THEN 1 ELSE @]

\* CREATE TABLE t
CreateTable(d, t) == [d EXCEPT !.tables = @ \cup {t}]

\* INSERT INTO Roles (role_name) VALUES (n) ON CONFLICT (role_name) DO NOTHING
SeedRole(d, n) ==
    IF \E r \in d.Roles : r.role_name = n
    THEN d
    ELSE [d EXCEPT !.Roles = @ \cup {[role_id |-> d.rolesSeq, role_name |-> n]},
                   !.rolesSeq = @ + 1]

ExecCommand(d, c) ==
    CASE c.k = "drop" -> DropTable(d, c.a)
      [] c.k = "create" -> CreateTable(d, c.a)
      [] OTHER -> SeedRole(d, c.a)

\* the first n commands of the script, each autocommitted
RECURSIVE RunCommands(_, _)
RunCommands(d, n) ==
    IF n = 0 THEN d ELSE ExecCommand(RunCommands(d, n - 1), SchemaCommands[n])

\* fault = k in 1..NumCommands: command k raises psycopg2.Error; otherwise none does
createDatabaseSchema(d, fault) ==
    IF fault \in 1..NumCommands
    THEN [ok |-> FALSE, db |-> RunCommands(d, fault - 1)]
    ELSE [ok |-> TRUE, db |-> RunCommands(d, NumCommands)]

(***************************************************************************)
(* Password hashing and the way a digest travels through the database.     *)
(***************************************************************************)
\* bcrypt.hashpw(password, bcrypt.gensalt()): a bytes digest under a fresh salt
hashPassword(password, salt) == [salt |-> salt, pw |-> password]

\* The digest is passed to the INSERT as Python bytes, which the driver sends as
\* a bytea literal; the VARCHAR(255) column stores bytea's text rendering, which
\* the server setting bytea_output decides: "hex" gives \x2432..., "escape"
\* gives the digest's own characters.
StoreVarchar(fmt, digest) == [fmt |-> fmt, digest |-> digest]

\* (variant) a comparison that accepts every password
checkPasswordAcceptsAll(plainPassword, hashedPassword) == "match"

\* bcrypt.checkpw(plain, stored.encode()): raises ValueError (invalid salt) when
\* the stored text is not a digest
checkPassword(plainPassword, hashedPassword) ==
    IF hashedPassword.fmt = "hex" THEN "ValueError"
    ELSE IF hashedPassword.digest.pw = plainPassword THEN "match"
    ELSE "mismatch"

(***************************************************************************)
(* Input validation.                                                       *)
(***************************************************************************)
\* (variant) a form check that lets every URL through
IsPgUrlAny(url) == TRUE

\* re.match(r"postgresql://[^@]+@[^/]+/.+", url)
IsPgUrl(url) == url \in {GoodUrl, DownUrl}

\* int(teamNumberStr): ValueError on text that is no integer literal
IsIntLiteral(s) == s \in {"254", "99999999999", "0", "-7"}

\* the literal's value is within the INT column TeamInfo.team_number (32 bits)
FitsIntColumn(s) == s \in {"254", "0", "-7"}

\* int(s) for the literals that fit the column
ParseInt(s) == CASE s = "254" -> 254 [] s = "0" -> 0 [] s = "-7" -> -7

(***************************************************************************)
(* Connections.                                                            *)
(***************************************************************************)
\* psycopg2.connect(dbUrl) succeeds
Reachable(url) == url = GoodUrl

\* connectDb assigns the global without closing the connection it held
LeakedAfterConnect == leaked + (IF dbConnection = "open" THEN 1 ELSE 0)

\* the model lets a handler connect only while the orphan count stays bounded
MayConnect == dbConnection = "open" => leaked < MaxLeaked

(***************************************************************************)
(* Queries (executeQuery on an open connection): FALSE/None on an error.   *)
(***************************************************************************)
\* (variant) a lookup that never finds the username
UsersNamedNobody(d, username) == {}

\* SELECT ... FROM Users WHERE username = %s
UsersNamed(d, username) == {u \in d.Users : u.username = username}

\* SELECT ... FROM Users WHERE username = %s  (None when the table is missing)
SelectUserOk(d) == "Users" \in d.tables

\* (variant) an insert that stores every account as already approved
InsertUserApproved(d, username, stored, pending, admin, roleId) ==
    [d EXCEPT !.Users = @ \cup {[user_id |-> d.usersSeq, username |-> username,
                                 hashed_password |-> stored, role_id |-> roleId,
                                 is_pending |-> FALSE, is_admin |-> admin]},
              !.usersSeq = @ + 1]

\* INSERT INTO Users ... RETURNING user_id
InsertUser(d, username, stored, pending, admin, roleId) ==
    [d EXCEPT !.Users = @ \cup {[user_id |-> d.usersSeq, username |-> username,
                                 hashed_password |-> stored, role_id |-> roleId,
                                 is_pending |-> pending, is_admin |-> admin]},
              !.usersSeq = @ + 1]

\* the INSERT fails: no table, or the UNIQUE(username) constraint
InsertUserOk(d, username) ==
    "Users" \in d.tables /\ UsersNamed(d, username) = {}

\* (variant) a delete whose foreign keys take no action
DeleteUsersNoAction(d, ids) == [d EXCEPT !.Users = {u \in @ : u.user_id \notin ids}]

\* DELETE FROM Users for the rows with these user_ids, with the foreign keys'
\* actions: Attendance.user_id ON DELETE CASCADE, Guides.created_by_user_id
\* and GuideVideos.added_by_user_id ON DELETE SET NULL
DeleteUsers(d, ids) ==
    [d EXCEPT !.Users = {u \in @ : u.user_id \notin ids},
              !.Attendance = {a \in @ : a.user_id \notin ids},
              !.Guides = {IF g.created_by_user_id \in ids
                          THEN [g EXCEPT !.created_by_user_id = NULL] ELSE g : g \in @},
              !.GuideVideos = {IF v.added_by_user_id \in ids
                               THEN [v EXCEPT !.added_by_user_id = NULL] ELSE v : v \in @}]

\* the row as attemptLogin / attemptCreateTeam copy it into currentUser
Identity(u) ==
    [user_id |-> u.user_id, username |-> u.username,
     is_admin |-> u.is_admin, role_id |-> u.role_id]

\* dict(teamResult[0]) of SELECT team_number, team_name FROM TeamInfo LIMIT 1
TeamDescriptor(t) == [team_number |-> t.team_number, team_name |-> t.team_name]

(***************************************************************************)
(* What every handler leaves behind.                                       *)
(***************************************************************************)
Finish(op, result, d, conn, lk, cu, ti, url, top) ==
    /\ db' = d
    /\ dbConnection' = conn
    /\ leaked' = lk
    /\ currentUser' = cu
    /\ teamInfo' = ti
    /\ dbUrlUsed' = url
    /\ topFrame' = top
    /\ last' = [op |-> op, result |-> result]
    /\ UNCHANGED <<byteaOutput, hasConfig, race>>

\* a handler that returns after a dialog, nothing touched
Refuse(op, result) ==
    Finish(op, result, db, dbConnection, leaked, currentUser, teamInfo, dbUrlUsed, topFrame)

\* a handler that connected and ends in closeDb()
ClosedWith(op, result, d) ==
    Finish(op, result, d, "None", LeakedAfterConnect, currentUser, teamInfo, dbUrlUsed, topFrame)

\* connectDb failed: the global is reset to None
ConnectFailed(op) ==
    Finish(op, "ConnectionError", db, "None", LeakedAfterConnect, currentUser, teamInfo,
           dbUrlUsed, topFrame)

(***************************************************************************)
(* FtcPortalApp.showFrame and the onShow guards of the frames.             *)
(***************************************************************************)
Frames == {"LoginFrame", "DashboardFrame", "AttendanceFrame", "ScoutingFrame",
           "GuidesFrame", "SettingsFrame", "AdminFrame"}

IsAdmin(cu) == cu # None /\ cu[1].is_admin

\* the frame onShow hands over to with a nested showFrame ("" when it does not)
Redirect(page, cu, ti) ==
    CASE page = "LoginFrame" -> ""
      [] page = "AdminFrame" -> IF ~IsAdmin(cu) THEN "DashboardFrame" ELSE ""
      [] page = "ScoutingFrame" -> IF cu = None \/ ti = None THEN "LoginFrame" ELSE ""
      [] OTHER -> IF cu = None THEN "LoginFrame" ELSE ""

\* the frames showFrame(page) raises, in order: onShow runs first (and may
\* itself call showFrame), then frame.tkraise()
RECURSIVE Raises(_, _, _)
Raises(page, cu, ti) ==
    (IF Redirect(page, cu, ti) = "" THEN << >> ELSE Raises(Redirect(page, cu, ti), cu, ti))
        \o <<page>>

FrameOnTop(page, cu, ti) == Raises(page, cu, ti)[Len(Raises(page, cu, ti))]

(***************************************************************************)
(* LoginFrame.attemptLogin                                                 *)
(***************************************************************************)
attemptLogin(username, password, urlEntry) ==
    LET targetDbUrl == IF dbUrlUsed # "" THEN dbUrlUsed ELSE urlEntry
        rows == UsersNamed(db, username)
    IN  /\ UNCHANGED adminTrees
        /\ IF username = "" \/ password = "" \/ targetDbUrl = ""
           THEN Refuse("Login", "InvalidInput")
           ELSE /\ MayConnect
                /\ IF ~Reachable(targetDbUrl)
                   THEN ConnectFailed("Login")
                   ELSE IF ~SelectUserOk(db) \/ rows = {}
                   THEN ClosedWith("Login", "InvalidCredentials", db)
                   ELSE \E userData \in rows :
                        LET verdict == checkPassword(password, userData.hashed_password)
                        IN  CASE verdict = "ValueError" ->
                                   \* the exception leaves the handler; nothing is closed
                                   Finish("Login", "ValueError", db, "open", LeakedAfterConnect,
                                          currentUser, teamInfo, dbUrlUsed, topFrame)
                              [] verdict = "mismatch" ->
                                   ClosedWith("Login", "InvalidCredentials", db)
                              [] verdict = "match" /\ userData.is_pending ->
                                   ClosedWith("Login", "PendingApproval", db)
                              [] OTHER ->
                                   IF "TeamInfo" \notin db.tables \/ db.TeamInfo = {}
                                   THEN Finish("Login", "InconsistentState", db, "None",
                                               LeakedAfterConnect, None, teamInfo, dbUrlUsed,
                                               topFrame)
                                   ELSE \E t \in db.TeamInfo :
                                        Finish("Login", "Authenticated", db, "open",
                                               LeakedAfterConnect, Some(Identity(userData)),
                                               Some(TeamDescriptor(t)),
                                               IF hasConfig THEN dbUrlUsed ELSE targetDbUrl,
                                               FrameOnTop("DashboardFrame",
                                                          Some(Identity(userData)),
                                                          Some(TeamDescriptor(t))))

(***************************************************************************)
(* LoginFrame.attemptJoin                                                  *)
(***************************************************************************)
\* (variant) a join that neither looks the name up nor meets a UNIQUE constraint
attemptJoinUnchecked(username, password, targetDbUrl, salt) ==
    /\ UNCHANGED adminTrees
    /\ IF username = "" \/ password = "" \/ targetDbUrl = "" \/ ~IsPgUrl(targetDbUrl)
       THEN Refuse("Join", "InvalidInput")
       ELSE /\ MayConnect
            /\ IF ~Reachable(targetDbUrl)
               THEN ConnectFailed("Join")
               ELSE IF "Users" \notin db.tables
               THEN ClosedWith("Join", "JoinFailed", db)
               ELSE /\ db.usersSeq <= MaxUserId
                    /\ Finish("Join", "JoinRequested",
                              InsertUser(db, username,
                                         StoreVarchar(byteaOutput, hashPassword(password, salt)),
                                         TRUE, FALSE, NULL),
                              "None", LeakedAfterConnect, currentUser, teamInfo,
                              targetDbUrl, topFrame)

attemptJoin(username, password, targetDbUrl, salt) ==
    /\ UNCHANGED adminTrees
    /\ IF username = "" \/ password = "" \/ targetDbUrl = "" \/ ~IsPgUrl(targetDbUrl)
       THEN Refuse("Join", "InvalidInput")
       ELSE /\ MayConnect
            /\ IF ~Reachable(targetDbUrl)
               THEN ConnectFailed("Join")
               ELSE IF SelectUserOk(db) /\ UsersNamed(db, username) # {}
               THEN ClosedWith("Join", "UsernameTaken", db)
               ELSE IF ~InsertUserOk(db, username)
               THEN ClosedWith("Join", "JoinFailed", db)
               ELSE /\ db.usersSeq <= MaxUserId
                    /\ Finish("Join", "JoinRequested",
                              InsertUser(db, username,
                                         StoreVarchar(byteaOutput, hashPassword(password, salt)),
                                         TRUE, FALSE, NULL),
                              "None", LeakedAfterConnect, currentUser, teamInfo,
                              targetDbUrl, topFrame)

(***************************************************************************)
(* FtcPortalApp.logout                                                     *)
(***************************************************************************)
\* (variant) a logout that forgets to clear teamInfo
logoutKeepsTeamInfo ==
    /\ UNCHANGED adminTrees
    /\ Finish("Logout", "LoggedOut", db, "None", leaked, None, teamInfo, dbUrlUsed,
              FrameOnTop("LoginFrame", None, None))

logout ==
    /\ UNCHANGED adminTrees
    /\ Finish("Logout", "LoggedOut", db, "None", leaked, None, None, dbUrlUsed,
              FrameOnTop("LoginFrame", None, None))

(***************************************************************************)
(* LoginFrame.attemptCreateTeam                                            *)
(***************************************************************************)
\* 'number' in team_data raises TypeError when the 200 body decodes to a JSON
\* value that is no container (null, a number, true); nothing catches it
LookupRaises(api) == api = "200_null"

\* checkFtcTeamExists: True only for a 200 whose JSON carries the team
checkFtcTeamExists(api) == api = "200_team"

\* statements of the script and of the try block at which a psycopg2.Error is
\* injected: 0 none, 1..NumCommands a schema command, then the TeamInfo
\* insert, the Admin role lookup and the admin Users insert
FaultTeamInsert == NumCommands + 1
FaultRoleLookup == NumCommands + 2
FaultUserInsert == NumCommands + 3
FaultPoints == {0, 1, 8, 17, FaultTeamInsert, FaultRoleLookup, FaultUserInsert}

\* INSERT INTO TeamInfo (team_number, team_name, team_password_hash)
InsertTeam(d, teamNumber, teamName, stored) ==
    [d EXCEPT !.TeamInfo = @ \cup {[team_number |-> teamNumber, team_name |-> teamName,
                                    team_password_hash |-> stored]}]

\* the INSERT fails: no table, integer out of range, or the primary key
InsertTeamOk(d, teamNumberStr) ==
    /\ "TeamInfo" \in d.tables
    /\ FitsIntColumn(teamNumberStr)
    /\ \A t \in d.TeamInfo : t.team_number # ParseInt(teamNumberStr)

\* (variant) a lookup that resolves to the Member role
AdminRoleIdMember(d) ==
    IF \E r \in d.Roles : r.role_name = "Member"
    THEN (CHOOSE r \in d.Roles : r.role_name = "Member").role_id
    ELSE NULL

\* SELECT role_id FROM Roles WHERE role_name = 'Admin'; None when there is no row
AdminRoleId(d) ==
    IF \E r \in d.Roles : r.role_name = "Admin"
    THEN (CHOOSE r \in d.Roles : r.role_name = "Admin").role_id
    ELSE NULL

\* the part of attemptCreateTeam after the override questions: schema, team row,
\* admin row, session
CreateTeamSetup(adminUsername, adminPassword, targetDbUrl, teamNumberStr, teamName, teamPassword, fault, salt) ==
    \E schema \in {createDatabaseSchema(db, fault)} :
      IF ~schema.ok \/ fault = FaultTeamInsert \/ ~InsertTeamOk(schema.db, teamNumberStr)
      THEN ClosedWith("Create", "CreationFailed", schema.db)
      ELSE
        \E d2 \in {InsertTeam(schema.db, ParseInt(teamNumberStr), teamName,
                              StoreVarchar(byteaOutput, hashPassword(teamPassword, salt)))} :
          IF fault \in {FaultRoleLookup, FaultUserInsert} \/ ~InsertUserOk(d2, adminUsername)
          THEN ClosedWith("Create", "CreationFailed", d2)
          ELSE
            \E d3 \in {InsertUser(d2, adminUsername,
                                  StoreVarchar(byteaOutput, hashPassword(adminPassword, salt)),
                                  FALSE, TRUE, AdminRoleId(d2))} :
            \E adminUserData \in UsersNamed(d3, adminUsername) :
              Finish("Create", "Authenticated", d3, "open", LeakedAfterConnect,
                     Some(Identity(adminUserData)),
                     Some([team_number |-> ParseInt(teamNumberStr), team_name |-> teamName]),
                     targetDbUrl,
                     FrameOnTop("DashboardFrame", Some(Identity(adminUserData)),
                                Some([team_number |-> ParseInt(teamNumberStr),
                                      team_name |-> teamName])))

\* (variant) a check that never finds an existing team
TeamRowExistsNever(d) == FALSE

\* SELECT 1 FROM TeamInfo LIMIT 1 returns a row
TeamRowExists(d) == "TeamInfo" \in d.tables /\ d.TeamInfo # {}

CreateFormValid(adminUsername, adminPassword, targetDbUrl, teamNumberStr, teamName, teamPassword) ==
    /\ adminUsername # "" /\ adminPassword # "" /\ targetDbUrl # ""
    /\ teamNumberStr # "" /\ teamName # "" /\ teamPassword # ""
    /\ IsPgUrl(targetDbUrl)
    /\ IsIntLiteral(teamNumberStr)

\* api: what the registry answered; proceedAnyway, wipe: the answers to the two
\* askyesno dialogs (read only when the dialog is shown)
attemptCreateTeam(adminUsername, adminPassword, targetDbUrl, teamNumberStr, teamName, teamPassword, api, proceedAnyway, wipe, fault, salt) ==
    /\ UNCHANGED adminTrees
    /\ IF ~CreateFormValid(adminUsername, adminPassword, targetDbUrl, teamNumberStr,
                           teamName, teamPassword)
       THEN Refuse("Create", "InvalidInput")
       ELSE IF LookupRaises(api)
       THEN Refuse("Create", "TypeError")
       ELSE IF ~checkFtcTeamExists(api) /\ ~proceedAnyway
       THEN Refuse("Create", "Cancelled")
       ELSE /\ MayConnect
            /\ IF ~Reachable(targetDbUrl) THEN ConnectFailed("Create")
               ELSE IF TeamRowExists(db) /\ ~wipe THEN ClosedWith("Create", "Declined", db)
               ELSE CreateTeamSetup(adminUsername, adminPassword, targetDbUrl, teamNumberStr,
                                    teamName, teamPassword, fault, salt)

(***************************************************************************)
(* AdminFrame: the lists it loads and its handlers.                        *)
(***************************************************************************)
\* executeQuery returns None: no connection, or the statement raises
QueryOk(conn, d, needed) == conn = "open" /\ needed \subseteq d.tables

loadPendingUsers(conn, d) ==
    IF QueryOk(conn, d, {"Users"})
    THEN {u.user_id : u \in {x \in d.Users : x.is_pending}}
    ELSE {ErrIid}

loadActiveUsersAndRoles(conn, d) ==
    IF QueryOk(conn, d, {"Users", "Roles"})
    THEN {[iid |-> u.user_id, is_admin |-> u.is_admin] : u \in {x \in d.Users : ~x.is_pending}}
    ELSE {[iid |-> ErrIid, is_admin |-> FALSE]}

loadAvailableRoles(conn, d) ==
    IF QueryOk(conn, d, {"Roles"}) THEN d.Roles ELSE {}

\* a handler of AdminFrame ends: the session globals other than teamInfo and the
\* frame on top stay as they are
AdminDone(op, result, d, ti, pend, act) ==
    /\ Finish(op, result, d, dbConnection, leaked, currentUser, ti, dbUrlUsed, topFrame)
    /\ pendingUsersTree' = pend
    /\ activeUsersTree' = act
    /\ UNCHANGED roleMap

AdminRefuse(op, result) ==
    AdminDone(op, result, db, teamInfo, pendingUsersTree, activeUsersTree)

\* a statement with WHERE user_id = %s: the error row's iid is no integer
UserStmtOk(sel) == QueryOk(dbConnection, db, {"Users"}) /\ sel # ErrIid

ActiveIids == {i.iid : i \in activeUsersTree}

\* (variant) an approval that also makes the account an administrator
approveSelectedUserAsAdmin(sel, yes) ==
    LET d == [db EXCEPT !.Users = {IF u.user_id = sel /\ u.is_pending
                                   THEN [u EXCEPT !.is_pending = FALSE, !.is_admin = TRUE]
                                   ELSE u : u \in @}]
    IN  IF sel = NoSel THEN AdminRefuse("Approve", "NoSelection")
        ELSE IF ~yes THEN AdminRefuse("Approve", "Cancelled")
        ELSE IF ~UserStmtOk(sel) THEN AdminRefuse("Approve", "Error")
        ELSE AdminDone("Approve", "Success", d, teamInfo,
                       loadPendingUsers(dbConnection, d),
                       loadActiveUsersAndRoles(dbConnection, d))

approveSelectedUser(sel, yes) ==
    LET d == [db EXCEPT !.Users = {IF u.user_id = sel /\ u.is_pending
                                   THEN [u EXCEPT !.is_pending = FALSE] ELSE u : u \in @}]
    IN  IF sel = NoSel THEN AdminRefuse("Approve", "NoSelection")
        ELSE IF ~yes THEN AdminRefuse("Approve", "Cancelled")
        ELSE IF ~UserStmtOk(sel) THEN AdminRefuse("Approve", "Error")
        ELSE AdminDone("Approve", "Success", d, teamInfo,
                       loadPendingUsers(dbConnection, d),
                       loadActiveUsersAndRoles(dbConnection, d))

rejectSelectedUser(sel, yes) ==
    LET d == DeleteUsers(db, {u.user_id : u \in {x \in db.Users : x.user_id = sel /\ x.is_pending}})
    IN  IF sel = NoSel THEN AdminRefuse("Reject", "NoSelection")
        ELSE IF ~yes THEN AdminRefuse("Reject", "Cancelled")
        ELSE IF ~UserStmtOk(sel) THEN AdminRefuse("Reject", "Error")
        ELSE AdminDone("Reject", "Success", d, teamInfo,
                       loadPendingUsers(dbConnection, d), activeUsersTree)

assignSelectedUserRole(sel, role) ==
    LET d == [db EXCEPT !.Users = {IF u.user_id = sel
                                   THEN [u EXCEPT !.role_id = role.role_id] ELSE u : u \in @}]
        \* the foreign key Users.role_id -> Roles.role_id
        fkOk == (\E u \in db.Users : u.user_id = sel)
                    => (\E r \in db.Roles : r.role_id = role.role_id)
    IN  IF sel = NoSel THEN AdminRefuse("AssignRole", "NoSelection")
        ELSE IF ~UserStmtOk(sel) \/ ~fkOk THEN AdminRefuse("AssignRole", "Error")
        ELSE AdminDone("AssignRole", "Success", d, teamInfo, pendingUsersTree,
                       loadActiveUsersAndRoles(dbConnection, d))

toggleSelectedUserAdmin(item, yes) ==
    LET newStatus == ~item.is_admin
        d == [db EXCEPT !.Users = {IF u.user_id = item.iid
                                   THEN [u EXCEPT !.is_admin = newStatus] ELSE u : u \in @}]
    IN  IF ~yes THEN AdminRefuse("ToggleAdmin", "Cancelled")
        ELSE IF ~UserStmtOk(item.iid) THEN AdminRefuse("ToggleAdmin", "Error")
        ELSE AdminDone("ToggleAdmin", "Success", d, teamInfo, pendingUsersTree,
                       loadActiveUsersAndRoles(dbConnection, d))

\* (variant) a removal without the comparison against the session's user
removeSelectedUserAnyone(sel, yes) ==
    LET d == DeleteUsers(db, {sel})
    IN  IF sel = NoSel THEN AdminRefuse("Remove", "NoSelection")
        ELSE IF ~yes THEN AdminRefuse("Remove", "Cancelled")
        ELSE IF ~UserStmtOk(sel) THEN AdminRefuse("Remove", "Error")
        ELSE AdminDone("Remove", "Success", d, teamInfo, pendingUsersTree,
                       loadActiveUsersAndRoles(dbConnection, d))

removeSelectedUser(sel, yes) ==
    LET d == DeleteUsers(db, {sel})
    IN  IF sel = NoSel THEN AdminRefuse("Remove", "NoSelection")
        ELSE IF currentUser # None /\ sel = ErrIid
        THEN AdminRefuse("Remove", "ValueError")      \* int("I001")
        ELSE IF currentUser # None /\ currentUser[1].user_id = sel
        THEN AdminRefuse("Remove", "ActionDenied")
        ELSE IF ~yes THEN AdminRefuse("Remove", "Cancelled")
        ELSE IF ~UserStmtOk(sel) THEN AdminRefuse("Remove", "Error")
        ELSE AdminDone("Remove", "Success", d, teamInfo, pendingUsersTree,
                       loadActiveUsersAndRoles(dbConnection, d))

updateTeamName(newName) ==
    LET n == teamInfo[1].team_number
        d == [db EXCEPT !.TeamInfo = {IF t.team_number = n
                                      THEN [t EXCEPT !.team_name = newName] ELSE t : t \in @}]
    IN  IF newName = "" THEN AdminRefuse("UpdateTeamName", "InvalidInput")
        ELSE IF teamInfo = None THEN AdminRefuse("UpdateTeamName", "NotLoaded")
        ELSE IF ~QueryOk(dbConnection, db, {"TeamInfo"})
        THEN AdminRefuse("UpdateTeamName", "Error")
        ELSE AdminDone("UpdateTeamName", "Success", d,
                       Some([teamInfo[1] EXCEPT !.team_name = newName]),
                       pendingUsersTree, activeUsersTree)

updateTeamPassword(newPassword, yes, salt) ==
    LET n == teamInfo[1].team_number
        stored == StoreVarchar(byteaOutput, hashPassword(newPassword, salt))
        d == [db EXCEPT !.TeamInfo = {IF t.team_number = n
                                      THEN [t EXCEPT !.team_password_hash = stored]
                                      ELSE t : t \in @}]
    IN  IF newPassword = "" THEN AdminRefuse("UpdateTeamPassword", "InvalidInput")
        ELSE IF teamInfo = None THEN AdminRefuse("UpdateTeamPassword", "NotLoaded")
        ELSE IF ~yes THEN AdminRefuse("UpdateTeamPassword", "Cancelled")
        ELSE IF ~QueryOk(dbConnection, db, {"TeamInfo"})
        THEN AdminRefuse("UpdateTeamPassword", "Error")
        ELSE AdminDone("UpdateTeamPassword", "Success", d, teamInfo,
                       pendingUsersTree, activeUsersTree)

(***************************************************************************)
(* executeQuery, statement by statement.                                   *)
(***************************************************************************)
\* three of the statements the program passes to executeQuery
Statements ==
    {[sql |-> "SelectPending", id |-> NULL]}
        \cup {[sql |-> k, id |-> i] : k \in {"ApproveUser", "DeleteUser"}, i \in 1..MaxUserId}

\* cursor.execute raises psycopg2.Error: the statement names a missing table
StatementRaises(d, q) == "Users" \notin d.tables

\* cursor.description is set: the statement produces a result set
HasDescription(q) == q.sql = "SelectPending"

\* the rows in a set of Users rows by ascending user_id (ORDER BY created_at)
RECURSIVE RowsInOrder(_)
RowsInOrder(rows) ==
    IF rows = {} THEN << >>
    ELSE LET first == CHOOSE r \in rows : \A o \in rows : r.user_id <= o.user_id
         IN  <<first>> \o RowsInOrder(rows \ {first})

\* cursor.fetchall() of SELECT user_id, username ... WHERE is_pending = TRUE
Fetchall(d, q) ==
    RowsInOrder({[user_id |-> u.user_id, username |-> u.username] :
                    u \in {x \in d.Users : x.is_pending}})

\* the database after the statement ran (autocommit)
StatementEffect(d, q) ==
    CASE q.sql = "ApproveUser" ->
            [d EXCEPT !.Users = {IF u.user_id = q.id /\ u.is_pending
                                 THEN [u EXCEPT !.is_pending = FALSE] ELSE u : u \in @}]
      [] q.sql = "DeleteUser" -> DeleteUsers(d, {q.id})
      [] OTHER -> d

\* what executeQuery returns: None, True or a list of rows
RetNone == [kind |-> "None", rows |-> << >>]
RetTrue == [kind |-> "True", rows |-> << >>]
RetList(rows) == [kind |-> "list", rows |-> rows]

\* (variant) a query layer that reports an empty result as a failure
executeQueryEmptyIsNone(conn, d, q, fetch) ==
    IF conn # "open" \/ StatementRaises(d, q) THEN [ret |-> RetNone, db |-> d]
    ELSE IF fetch
    THEN [ret |-> IF HasDescription(q) /\ Fetchall(d, q) # << >>
                  THEN RetList(Fetchall(d, q)) ELSE RetNone,
          db |-> StatementEffect(d, q)]
    ELSE [ret |-> RetTrue, db |-> StatementEffect(d, q)]

executeQuery(conn, d, q, fetch) ==
    IF conn # "open" THEN [ret |-> RetNone, db |-> d]
    ELSE IF StatementRaises(d, q) THEN [ret |-> RetNone, db |-> d]
    ELSE IF fetch
    THEN IF HasDescription(q)
         THEN [ret |-> RetList(Fetchall(d, q)), db |-> StatementEffect(d, q)]
         ELSE [ret |-> RetList(<< >>), db |-> StatementEffect(d, q)]
    ELSE [ret |-> RetTrue, db |-> StatementEffect(d, q)]

\* the returned value as the outcome of the step
RetLabel(ret) ==
    IF ret.kind = "list" THEN (IF ret.rows = << >> THEN "EmptyList" ELSE "Rows") ELSE ret.kind

\* one call of executeQuery on the session's connection
runQuery(q, fetch) ==
    LET r == executeQuery(dbConnection, db, q, fetch)
    IN  /\ UNCHANGED adminTrees
        /\ Finish(q.sql, RetLabel(r.ret), r.db, dbConnection, leaked, currentUser, teamInfo,
                  dbUrlUsed, topFrame)

(***************************************************************************)
(* AttendanceFrame and GuidesFrame: the handlers that add rows.            *)
(***************************************************************************)
\* SELECT user_id, username FROM Users WHERE is_pending = FALSE, as the
\* meeting dialog lists it (nothing listed when the query fails)
ListedUserIds ==
    IF QueryOk(dbConnection, db, {"Users"})
    THEN {u.user_id : u \in {x \in db.Users : ~x.is_pending}}
    ELSE {}

\* INSERT INTO Meetings (title, description) ... RETURNING meeting_id
InsertMeeting(d, title) ==
    [d EXCEPT !.Meetings = @ \cup {[meeting_id |-> d.meetingsSeq, title |-> title]},
              !.meetingsSeq = @ + 1]

\* execute_values: one Attendance row for every listed user
InsertAttendance(d, userIds, meetingId, present) ==
    [d EXCEPT !.Attendance = @ \cup {[user_id |-> uid, meeting_id |-> meetingId,
                                      is_present |-> uid \in present] : uid \in userIds}]

\* openCreateMeetingDialog and its saveMeeting: present is the selection in the
\* list, zeroOk the answer when nobody is selected
saveMeeting(title, present, zeroOk) ==
    LET d1 == InsertMeeting(db, title)
        d2 == InsertAttendance(d1, ListedUserIds, db.meetingsSeq, present)
    IN  /\ UNCHANGED adminTrees
        /\ present \subseteq ListedUserIds
        /\ IF title = "" THEN Refuse("SaveMeeting", "InvalidInput")
           ELSE IF present = {} /\ ~zeroOk THEN Refuse("SaveMeeting", "Cancelled")
           ELSE IF ~QueryOk(dbConnection, db, {"Meetings"}) THEN Refuse("SaveMeeting", "Error")
           ELSE /\ db.meetingsSeq <= MaxContentId
                /\ IF ListedUserIds # {} /\ "Attendance" \notin db.tables
                   THEN Finish("SaveMeeting", "AttendanceError", d1, dbConnection, leaked,
                               currentUser, teamInfo, dbUrlUsed, topFrame)
                   ELSE Finish("SaveMeeting", "Success", d2, dbConnection, leaked,
                               currentUser, teamInfo, dbUrlUsed, topFrame)

\* the foreign keys Guides.created_by_user_id, GuideVideos.added_by_user_id
UserRowExists(d, userId) == \E u \in d.Users : u.user_id = userId

\* INSERT INTO Guides (topic_name, created_by_user_id)
InsertGuide(d, topicName, userId) ==
    [d EXCEPT !.Guides = @ \cup {[guide_id |-> d.guidesSeq, topic_name |-> topicName,
                                  created_by_user_id |-> userId]},
              !.guidesSeq = @ + 1]

createGuideTopic(topicName) ==
    /\ UNCHANGED adminTrees
    /\ IF topicName = "cancel" THEN Refuse("CreateGuide", "Cancelled")
       ELSE IF topicName = "" THEN Refuse("CreateGuide", "InvalidInput")
       ELSE IF currentUser = None THEN Refuse("CreateGuide", "AttributeError")
       ELSE IF ~QueryOk(dbConnection, db, {"Guides"}) THEN Refuse("CreateGuide", "Error")
       ELSE /\ db.guidesSeq <= MaxContentId
            /\ IF ~UserRowExists(db, currentUser[1].user_id)
               THEN Finish("CreateGuide", "Error", [db EXCEPT !.guidesSeq = @ + 1],
                           dbConnection, leaked, currentUser, teamInfo, dbUrlUsed, topFrame)
               ELSE Finish("CreateGuide", "Success",
                           InsertGuide(db, topicName, currentUser[1].user_id),
                           dbConnection, leaked, currentUser, teamInfo, dbUrlUsed, topFrame)

\* INSERT INTO GuideVideos (guide_id, video_url, video_title, added_by_user_id)
InsertVideo(d, guideId, url, title, userId) ==
    [d EXCEPT !.GuideVideos = @ \cup {[video_id |-> d.videosSeq, guide_id |-> guideId,
                                       video_url |-> url, video_title |-> title,
                                       added_by_user_id |-> userId]},
              !.videosSeq = @ + 1]

\* does the URL start with http:// or https://
IsHttpUrl(url) == url = "https://v"

\* addVideoToGuide and its saveVideo; currentGuideId is NULL while no guide is open
addVideoToGuide(currentGuideId, title, url) ==
    /\ UNCHANGED adminTrees
    /\ IF currentGuideId = NULL THEN Refuse("AddVideo", "NoGuide")
       ELSE IF url = "" \/ ~IsHttpUrl(url) THEN Refuse("AddVideo", "InvalidInput")
       ELSE IF currentUser = None THEN Refuse("AddVideo", "AttributeError")
       ELSE IF ~QueryOk(dbConnection, db, {"GuideVideos"}) THEN Refuse("AddVideo", "Error")
       ELSE /\ db.videosSeq <= MaxContentId
            /\ IF ~UserRowExists(db, currentUser[1].user_id)
                  \/ ~\E g \in db.Guides : g.guide_id = currentGuideId
               THEN Finish("AddVideo", "Error", [db EXCEPT !.videosSeq = @ + 1],
                           dbConnection, leaked, currentUser, teamInfo, dbUrlUsed, topFrame)
               ELSE Finish("AddVideo", "Success",
                           InsertVideo(db, currentGuideId, url, title, currentUser[1].user_id),
                           dbConnection, leaked, currentUser, teamInfo, dbUrlUsed, topFrame)

(***************************************************************************)
(* FtcPortalApp.showFrame as a navigation step                             *)
(***************************************************************************)
showFrame(pageName) ==
    /\ Finish("ShowFrame", pageName, db, dbConnection, leaked, currentUser, teamInfo,
              dbUrlUsed, FrameOnTop(pageName, currentUser, teamInfo))
    /\ IF pageName = "AdminFrame" /\ IsAdmin(currentUser)
       THEN /\ pendingUsersTree' = loadPendingUsers(dbConnection, db)
            /\ activeUsersTree' = loadActiveUsersAndRoles(dbConnection, db)
            /\ roleMap' = loadAvailableRoles(dbConnection, db)
       ELSE UNCHANGED adminTrees

(***************************************************************************)
(* The interpreter reclaims a connection object nothing refers to any more: *)
(* its finalizer closes the socket.  When that happens is up to the        *)
(* interpreter, so it is a step of its own that may or may not be taken.    *)
(***************************************************************************)
finalizeOrphan ==
    /\ leaked > 0
    /\ UNCHANGED adminTrees
    /\ Finish("Finalize", "Closed", db, dbConnection, leaked - 1, currentUser, teamInfo,
              dbUrlUsed, topFrame)

(***************************************************************************)
(* Two other clients run attemptCreateTeam against the same database, one  *)
(* autocommitted statement at a time.  race[c].pc is the statement client  *)
(* c runs next: 0 the existence check, 1..NumCommands the commands of the  *)
(* schema script, then the Team insert, the role lookup and the admin      *)
(* insert (numbered as the fault points are).                              *)
(***************************************************************************)
RaceClients == {1, 2}
RaceForm(c) ==
    IF c = 1 THEN [admin |-> "alice", password |-> "pw1", number |-> 254]
    ELSE [admin |-> "bob", password |-> "pw2", number |-> 11115]
RaceDone == NumCommands + 4
RaceFailed == NumCommands + 5
RaceStopped == NumCommands + 6

\* cursor.execute(command) raises: CREATE TABLE of a table that exists or that
\* REFERENCES a missing one, INSERT INTO Roles without the table
CommandRaises(d, cmd) ==
    LET referenced == CASE cmd.a = "Users" -> {"Roles"}
                        [] cmd.a = "Attendance" -> {"Users", "Meetings"}
                        [] cmd.a = "Guides" -> {"Users"}
                        [] cmd.a = "GuideVideos" -> {"Guides", "Users"}
                        [] OTHER -> {}
    IN  CASE cmd.k = "drop" -> FALSE
          [] cmd.k = "create" -> cmd.a \in d.tables \/ ~(referenced \subseteq d.tables)
          [] OTHER -> "Roles" \notin d.tables

\* client c moves on to statement pc over database d
RaceMove(c, pc, roleId, d) ==
    /\ race' = [race EXCEPT ![c] = [pc |-> pc, roleId |-> roleId]]
    /\ db' = d
    /\ UNCHANGED <<byteaOutput, dbConnection, leaked, currentUser, teamInfo, dbUrlUsed,
                   hasConfig, topFrame, pendingUsersTree, activeUsersTree, roleMap, last>>

\* SELECT 1 FROM TeamInfo LIMIT 1 and, when it finds a row, the wipe question
raceCheck(c, wipe) ==
    /\ race[c].pc = 0
    /\ IF TeamRowExists(db) /\ ~wipe
       THEN RaceMove(c, RaceStopped, NULL, db)
       ELSE RaceMove(c, 1, NULL, db)

\* one command of the schema script
raceSchema(c) ==
    /\ race[c].pc \in 1..NumCommands
    /\ IF CommandRaises(db, SchemaCommands[race[c].pc])
       THEN RaceMove(c, RaceFailed, NULL, db)
       ELSE RaceMove(c, race[c].pc + 1, NULL, ExecCommand(db, SchemaCommands[race[c].pc]))

\* INSERT INTO TeamInfo
raceTeam(c, salt) ==
    /\ race[c].pc = FaultTeamInsert
    /\ IF "TeamInfo" \notin db.tables
          \/ \E t \in db.TeamInfo : t.team_number = RaceForm(c).number
       THEN RaceMove(c, RaceFailed, NULL, db)
       ELSE RaceMove(c, FaultRoleLookup, NULL,
                     InsertTeam(db, RaceForm(c).number, "RoboDevils",
                                StoreVarchar(byteaOutput, hashPassword("teampw", salt))))

\* SELECT role_id FROM Roles WHERE role_name = 'Admin'
raceRole(c) ==
    /\ race[c].pc = FaultRoleLookup
    /\ IF "Roles" \notin db.tables
       THEN RaceMove(c, RaceFailed, NULL, db)
       ELSE RaceMove(c, FaultUserInsert, AdminRoleId(db), db)

\* INSERT INTO Users ... RETURNING: the administrator's row
raceAdmin(c, salt) ==
    /\ race[c].pc = FaultUserInsert
    /\ db.usersSeq <= MaxUserId
    /\ IF ~InsertUserOk(db, RaceForm(c).admin)
          \/ (race[c].roleId # NULL /\ ~\E r \in db.Roles : r.role_id = race[c].roleId)
       THEN RaceMove(c, RaceFailed, race[c].roleId, db)
       ELSE RaceMove(c, RaceDone, race[c].roleId,
                     InsertUser(db, RaceForm(c).admin,
                                StoreVarchar(byteaOutput,
                                             hashPassword(RaceForm(c).password, salt)),
                                FALSE, TRUE, race[c].roleId))

(***************************************************************************)
(* The window is closed and the program started again.                     *)
(***************************************************************************)
\* the form LoginFrame.showMode('initial') leaves on screen
showModeInitial(hc) == IF hc THEN "login" ELSE "initial"

\* onClosing ends the process (its sockets with it); the next process builds
\* LoginFrame, whose __init__ computes hasConfig from the module-level
\* dbUrlUsed = None and calls showMode('initial'), and only then loadConfig
\* reads the saved URL into dbUrlUsed
restart ==
    /\ db' = db
    /\ dbConnection' = "None"
    /\ leaked' = 0
    /\ currentUser' = None
    /\ teamInfo' = None
    /\ dbUrlUsed' = dbUrlUsed
    /\ hasConfig' = (None # None)
    /\ topFrame' = "LoginFrame"
    /\ pendingUsersTree' = {}
    /\ activeUsersTree' = {}
    /\ roleMap' = {}
    /\ last' = [op |-> "Restart", result |-> showModeInitial(hasConfig')]
    /\ UNCHANGED <<byteaOutput, race>>

(***************************************************************************)
(* The program after FtcPortalApp.__init__, and its steps.                 *)
(***************************************************************************)
Init ==
    /\ byteaOutput \in {"hex", "escape"}
    /\ db = EmptyDb
    /\ dbConnection = "None"
    /\ leaked = 0
    /\ currentUser = None
    /\ teamInfo = None
    /\ dbUrlUsed \in {"", GoodUrl}     \* loadConfig
    /\ hasConfig = FALSE               \* LoginFrame is built before loadConfig runs
    /\ topFrame = "LoginFrame"
    /\ pendingUsersTree = {}
    /\ activeUsersTree = {}
    /\ roleMap = {}
    /\ last = [op |-> "Start", result |-> "None"]
    /\ race = [c \in RaceClients |-> [pc |-> 0, roleId |-> NULL]]

(***************************************************************************)
(* The provisioning workflow: every field of the three forms, valid or not, *)
(* every override answer and every injected fault.                         *)
(***************************************************************************)
\* the Create form: filled in validly for either administrator, once with a team
\* number beyond the INT column and once against the unreachable server, and
\* with exactly one field left wrong
CreateFormInputs ==
    {f \in [u : UsernameInputs, p : PasswordInputs, url : UrlInputs,
            n : TeamNumberInputs, tn : TeamNameInputs, tp : TeamPasswordInputs] :
        \/ /\ CreateFormValid(f.u, f.p, f.url, f.n, f.tn, f.tp)
           /\ f.n \in {"254", "99999999999"}
           /\ \/ f.url = GoodUrl /\ f.n = "254"
              \/ f.u = "alice" /\ f.p = "pw1" /\ (f.url = GoodUrl \/ f.n = "254")
        \/ /\ f.u \in {"", "alice"} /\ f.p \in {"", "pw1"} /\ f.url \in {"", BadUrl, GoodUrl}
           /\ f.n \in {"", "abc", "254"}
           /\ Cardinality({x \in {<<1, f.u = "">>, <<2, f.p = "">>, <<3, ~IsPgUrl(f.url)>>,
                                  <<4, ~IsIntLiteral(f.n)>>, <<5, f.tn = "">>,
                                  <<6, f.tp = "">>} : x[2]}) = 1}

\* The environment of one CreateTeam: the registry's answer and, for each dialog
\* the handler gets to show, the user's answer; a fault only where statements run.
CreateEnvs(f) ==
    LET valid == CreateFormValid(f.u, f.p, f.url, f.n, f.tn, f.tp)
        gates == IF valid
                 THEN {<<"200_team", FALSE>>, <<"404", TRUE>>} \cup
                      {<<api, FALSE>> : api \in ApiOutcomes \ {"200_team"}}
                 ELSE {<<"200_team", FALSE>>}
        runs(g) == valid /\ (checkFtcTeamExists(g[1]) \/ g[2]) /\ Reachable(f.url)
    IN  UNION {{[api |-> g[1], proceedAnyway |-> g[2], wipe |-> w, fault |-> k] :
                   w \in IF runs(g) /\ TeamRowExists(db) THEN BOOLEAN ELSE {TRUE},
                   k \in IF runs(g) THEN FaultPoints ELSE {0}} : g \in gates}

Login == \E u \in UsernameInputs, p \in PasswordInputs, url \in UrlInputs : attemptLogin(u, p, url)
Join == \E u \in UsernameInputs, p \in PasswordInputs, url \in UrlInputs, s \in Salts :
            attemptJoin(u, p, url, s)
Create ==
    \E f \in CreateFormInputs : \E e \in CreateEnvs(f), s \in Salts :
        attemptCreateTeam(f.u, f.p, f.url, f.n, f.tn, f.tp,
                          e.api, e.proceedAnyway, e.wipe, e.fault, s)
Logout == logout
Finalize == finalizeOrphan

Next ==
    \/ Login
    \/ Join
    \/ Create
    \/ Logout
    \/ Finalize

Spec == Init /\ [][Next]_vars

(***************************************************************************)
(* The Create form alone: every team number and every answer of the        *)
(* registry, with both answers to each question and a fault at either      *)
(* insert; bob's join request gives the database something to lose.        *)
(***************************************************************************)
FormCreate ==
    \E n \in TeamNumberInputs, api \in ApiOutcomes, proceedAnyway \in BOOLEAN, wipe \in BOOLEAN,
       k \in {0, FaultTeamInsert, FaultUserInsert}, s \in Salts :
        attemptCreateTeam("alice", "pw1", GoodUrl, n, "RoboDevils", "teampw",
                          api, proceedAnyway, wipe, k, s)
FormJoin == \E s \in Salts : attemptJoin("bob", "pw1", GoodUrl, s)

NextForm ==
    \/ FormCreate
    \/ FormJoin
    \/ Logout
    \/ Finalize

SpecForm == Init /\ [][NextForm]_vars

(***************************************************************************)
(* The administration panel on top of the workflow: alice bootstraps the   *)
(* team, bob asks to join; the forms are filled in validly, the overrides  *)
(* are given and no fault is injected.                                     *)
(***************************************************************************)
AdminCreate ==
    \E s \in Salts : attemptCreateTeam("alice", "pw1", GoodUrl, "254", "RoboDevils", "teampw",
                                       "200_team", FALSE, TRUE, 0, s)
AdminJoin == \E s \in Salts : attemptJoin("bob", "pw1", GoodUrl, s)
AdminLogin == \E u \in Usernames : attemptLogin(u, "pw1", GoodUrl)
ShowFrame == \E page \in {"DashboardFrame", "AdminFrame"} : showFrame(page)
Approve == \E sel \in pendingUsersTree \cup {NoSel}, yes \in BOOLEAN : approveSelectedUser(sel, yes)
Reject == \E sel \in pendingUsersTree \cup {NoSel}, yes \in BOOLEAN : rejectSelectedUser(sel, yes)
AssignRole ==
    \E sel \in ActiveIids \cup {NoSel}, role \in {r \in roleMap : r.role_name = "Member"} :
        assignSelectedUserRole(sel, role)
ToggleAdmin == \E item \in activeUsersTree, yes \in BOOLEAN : toggleSelectedUserAdmin(item, yes)
Remove == \E sel \in ActiveIids \cup {NoSel}, yes \in BOOLEAN : removeSelectedUser(sel, yes)
UpdateTeamName == \E n \in NewTeamNameInputs : updateTeamName(n)
UpdateTeamPassword ==
    \E p \in NewTeamPasswordInputs, yes \in BOOLEAN, s \in Salts : updateTeamPassword(p, yes, s)

NextAdmin ==
    \/ AdminCreate
    \/ AdminJoin
    \/ AdminLogin
    \/ Logout
    \/ ShowFrame
    \/ Approve
    \/ Reject
    \/ AssignRole
    \/ ToggleAdmin
    \/ Remove
    \/ UpdateTeamName
    \/ UpdateTeamPassword

SpecAdmin == Init /\ [][NextAdmin]_vars

(***************************************************************************)
(* The three forms with every field left empty in turn and with a          *)
(* malformed URL, next to their valid submissions.                         *)
(***************************************************************************)
\* a Create form filled in validly, and the same form with one field emptied
\* or with a malformed URL
GoodCreateForm ==
    [u |-> "alice", p |-> "pw1", url |-> GoodUrl, n |-> "254", tn |-> "RoboDevils",
     tp |-> "teampw"]
DefectiveCreateForms ==
    {[GoodCreateForm EXCEPT ![k] = ""] : k \in {"u", "p", "url", "n", "tn", "tp"}}
        \cup {[GoodCreateForm EXCEPT !.url = BadUrl]}

FieldsLogin ==
    \E u \in UsernameInputs, p \in PasswordInputs, url \in UrlInputs : attemptLogin(u, p, url)
FieldsJoin ==
    \E u \in UsernameInputs, p \in PasswordInputs, url \in UrlInputs, s \in Salts :
        attemptJoin(u, p, url, s)
FieldsCreate ==
    \E f \in DefectiveCreateForms \cup {GoodCreateForm}, api \in {"200_team", "200_null"},
       s \in Salts :
        attemptCreateTeam(f.u, f.p, f.url, f.n, f.tn, f.tp, api, FALSE, TRUE, 0, s)

NextFields ==
    \/ FieldsLogin
    \/ FieldsJoin
    \/ FieldsCreate
    \/ Logout
    \/ Finalize

SpecFields == Init /\ [][NextFields]_vars

(***************************************************************************)
(* One client working on the rows of the database: alice bootstraps a team *)
(* under one of two numbers (overriding an existing team or not), bob asks *)
(* to join, either logs in, and the administration panel is used with      *)
(* every confirmation given.                                               *)
(***************************************************************************)
RowsCreate ==
    \E n \in {"254", "0"}, wipe \in BOOLEAN, s \in Salts :
        attemptCreateTeam("alice", "pw1", GoodUrl, n, "RoboDevils", "teampw", "200_team", FALSE,
                          wipe, 0, s)
RowsJoin == \E s \in Salts : attemptJoin("bob", "pw1", GoodUrl, s)
RowsLogin == \E u \in Usernames : attemptLogin(u, "pw1", GoodUrl)
RowsShowAdmin == showFrame("AdminFrame")
RowsApprove == \E sel \in pendingUsersTree : approveSelectedUser(sel, TRUE)
RowsReject == \E sel \in pendingUsersTree : rejectSelectedUser(sel, TRUE)
RowsAssignRole ==
    \E sel \in ActiveIids, role \in {r \in roleMap : r.role_name = "Member"} :
        assignSelectedUserRole(sel, role)
RowsToggleAdmin == \E item \in activeUsersTree : toggleSelectedUserAdmin(item, TRUE)
RowsRemove == \E sel \in ActiveIids : removeSelectedUser(sel, TRUE)
RowsUpdateTeamName == updateTeamName("Renamed")
RowsUpdateTeamPassword == \E s \in Salts : updateTeamPassword("newpw", TRUE, s)

NextRows ==
    \/ RowsCreate
    \/ RowsJoin
    \/ RowsLogin
    \/ Logout
    \/ RowsShowAdmin
    \/ RowsApprove
    \/ RowsReject
    \/ RowsAssignRole
    \/ RowsToggleAdmin
    \/ RowsRemove
    \/ RowsUpdateTeamName
    \/ RowsUpdateTeamPassword

SpecRows == Init /\ [][NextRows]_vars

(***************************************************************************)
(* The accounts of one team: join requests under either name (the          *)
(* creator's included), and the panel's approve, reject and remove.        *)
(***************************************************************************)
NamesJoin == \E u \in Usernames, s \in Salts : attemptJoin(u, "pw1", GoodUrl, s)

NextNames ==
    \/ RowsCreate \/ NamesJoin \/ RowsLogin \/ RowsShowAdmin
    \/ RowsApprove \/ RowsReject \/ RowsRemove \/ Logout

SpecNames == Init /\ [][NextNames]_vars

(***************************************************************************)
(* A team and what its members record: alice creates the team, bob joins   *)
(* and is approved, either logs in (each of the three after a logout),     *)
(* meetings with everybody present, guide topics and videos are added, and *)
(* the panel removes accounts.                                             *)
(***************************************************************************)
ContentCreate == dbConnection = "None" /\ \E s \in Salts : attemptCreateTeam("alice", "pw1", GoodUrl, "254", "RoboDevils", "teampw", "200_team", FALSE, TRUE, 0, s)
ContentJoin == dbConnection = "None" /\ \E s \in Salts : attemptJoin("bob", "pw1", GoodUrl, s)
ContentLogin == dbConnection = "None" /\ \E u \in Usernames : attemptLogin(u, "pw1", GoodUrl)
SaveMeeting == \E t \in MeetingTitleInputs : saveMeeting(t, ListedUserIds, TRUE)
CreateGuideTopic == \E t \in TopicInputs : createGuideTopic(t)
AddVideoToGuide == \E g \in {NULL} \cup {x.guide_id : x \in db.Guides}, t \in VideoTitleInputs, url \in VideoUrlInputs : addVideoToGuide(g, t, url)

NextContent ==
    \/ ContentCreate \/ ContentJoin \/ ContentLogin \/ Logout
    \/ RowsShowAdmin \/ RowsApprove \/ RowsRemove
    \/ SaveMeeting \/ CreateGuideTopic \/ AddVideoToGuide

SpecContent == Init /\ [][NextContent]_vars

(***************************************************************************)
(* The query layer under a team's sessions: statements run with and        *)
(* without a connection, before and after the schema exists, with and      *)
(* without pending accounts.                                               *)
(***************************************************************************)
Query == \E q \in Statements, fetch \in BOOLEAN : runQuery(q, fetch)

NextQuery == ContentCreate \/ ContentJoin \/ ContentLogin \/ Logout \/ Query

SpecQuery == Init /\ [][NextQuery]_vars

(***************************************************************************)
(* Runs of the program one after the other over the same database and the  *)
(* same saved configuration.                                               *)
(***************************************************************************)
NextStart ==
    \/ RowsCreate \/ RowsJoin \/ RowsLogin \/ Logout
    \/ RowsShowAdmin \/ RowsApprove \/ restart

SpecStart == Init /\ [][NextStart]_vars

(***************************************************************************)
(* Two clients creating a team at the same time.                           *)
(***************************************************************************)
NextRace ==
    \E c \in RaceClients, wipe \in BOOLEAN, s \in Salts :
       \/ raceCheck(c, wipe)
       \/ raceSchema(c)
       \/ raceTeam(c, s)
       \/ raceRole(c)
       \/ raceAdmin(c, s)

SpecRace == Init /\ [][NextRace]_vars

(***************************************************************************)
(* Properties of the provisioning workflow (Spec) and of the               *)
(* administration panel (SpecAdmin).                                       *)
(***************************************************************************)
\* the session's identity decides whether it is authenticated
Unauthenticated == currentUser = None
Authenticated == currentUser # None

\* the digest stored for row r was made from password p
MadeFrom(r, p) == r.hashed_password.digest.pw = p

\* the two ways past the registry question
PassedGates == {<<"200_team", FALSE>>, <<"404", TRUE>>}

AdminOps == {"Approve", "Reject", "AssignRole", "ToggleAdmin", "Remove",
             "UpdateTeamName", "UpdateTeamPassword"}

\* C1: when the session identity is not an administrator, every admin-only
\* operation (approve, reject, assign role, toggle admin, remove, update team
\* name, update team password) is rejected with an authorization error and
\* changes no database row, the check being made by the operation itself.
C1_NonAdminRejected ==
    [][(last'.op \in AdminOps /\ Authenticated /\ ~currentUser[1].is_admin)
          => (last'.result = "AccessDenied" /\ db' = db)]_vars

\* C2: a login with the correct password of a pending user yields
\* PendingApproval; afterwards no identity and no team info is set and the
\* connection opened for the attempt is closed.
C2_PendingLogin ==
    [][\A u \in Usernames, p \in Passwords :
          ( /\ Unauthenticated /\ teamInfo = None
            /\ \E r \in db.Users : r.username = u /\ r.is_pending /\ MadeFrom(r, p)
            /\ attemptLogin(u, p, GoodUrl) )
          => ( /\ last'.result = "PendingApproval"
               /\ currentUser' = None /\ teamInfo' = None /\ dbConnection' = "None" )]_vars

\* C3: a CreateTeam that fails after it started changing the database leaves
\* the database as it was before (no team without its administrator, no
\* earlier row lost) and reports CreationFailed.
C3_FailedCreateLeavesDb ==
    [][(last'.op = "Create" /\ last'.result = "CreationFailed") => db' = db]_vars

\* C4: CreateTeam against a database that holds a Team row, with the
\* destructive override declined, changes nothing in the database, closes the
\* connection and establishes no session.
C4_DeclinedOverride ==
    [][(db.TeamInfo # {} /\ last'.op = "Create") =>
       \A u \in Usernames, p \in Passwords, g \in PassedGates, s \in Salts :
          attemptCreateTeam(u, p, GoodUrl, "254", "RoboDevils", "teampw", g[1], g[2], FALSE, 0, s)
          => ( /\ last'.result = "Declined"
               /\ db' = db
               /\ dbConnection' = "None"
               /\ currentUser' = currentUser /\ teamInfo' = teamInfo )]_vars

C4_Witness ==
    /\ last = [op |-> "Create", result |-> "Declined"]
    /\ db.TeamInfo # {} /\ db.Users # {}
    /\ dbConnection = "None" /\ Unauthenticated

\* C5: CreateTeam with valid inputs on a database without rows, no step
\* failing, ends with exactly one Team row, exactly the five seeded roles and
\* exactly one User row, an approved administrator holding the Admin role, and
\* the session is authenticated as that user.
C5_CreateOnEmptyDb ==
    [][(db.TeamInfo = {} /\ db.Users = {} /\ db.Roles = {} /\ last'.op = "Create") =>
       \A u \in Usernames, p \in Passwords, g \in PassedGates, s \in Salts :
          attemptCreateTeam(u, p, GoodUrl, "254", "RoboDevils", "teampw", g[1], g[2], TRUE, 0, s)
          => ( /\ last'.result = "Authenticated"
               /\ Cardinality(db'.TeamInfo) = 1
               /\ Cardinality(db'.Roles) = 5
               /\ {r.role_name : r \in db'.Roles} =
                      {"Member", "Software Lead", "Mechanical Lead", "Outreach Lead", "Admin"}
               /\ \E row \in db'.Users :
                     /\ db'.Users = {row}
                     /\ row.username = u /\ row.is_admin /\ ~row.is_pending
                     /\ \E r \in db'.Roles : r.role_name = "Admin" /\ r.role_id = row.role_id
                     /\ currentUser' = Some(Identity(row))
               /\ dbConnection' = "open" /\ teamInfo' # None )]_vars

C5_Witness ==
    /\ last = [op |-> "Create", result |-> "Authenticated"]
    /\ Cardinality(db.TeamInfo) = 1 /\ Cardinality(db.Roles) = 5 /\ Cardinality(db.Users) = 1
    /\ Authenticated /\ currentUser[1].is_admin /\ leaked = 0

\* C6: a login with a username that has no row and a login with the wrong
\* password of an existing username give the same InvalidCredentials outcome
\* and the same session afterwards: no identity, no team info, connection
\* closed.
C6_SameInvalidCredentials ==
    [][\A u \in Usernames, p \in Passwords :
          ( /\ Unauthenticated /\ teamInfo = None
            /\ "Users" \in db.tables
            /\ \A r \in db.Users : r.username = u => ~MadeFrom(r, p)
            /\ attemptLogin(u, p, GoodUrl) )
          => ( /\ last'.result = "InvalidCredentials"
               /\ currentUser' = None /\ teamInfo' = None /\ dbConnection' = "None" )]_vars

\* C7 as written: RequestJoin with a username that already has a row fails
\* with UsernameTaken for every password value, inserts nothing and leaves the
\* existing row unchanged.
C7_UsernameTakenAnyPassword ==
    [][\A u \in Usernames, p \in PasswordInputs, s \in Salts :
          ( /\ \E r \in db.Users : r.username = u
            /\ attemptJoin(u, p, GoodUrl, s) )
          => (last'.result = "UsernameTaken" /\ db' = db)]_vars

\* C7 amended: RequestJoin with a username that already has a row fails with
\* UsernameTaken for every non-empty password; for every password, empty or
\* not, it inserts nothing and leaves the existing row unchanged.
C7_UsernameTaken ==
    [][\A u \in Usernames, p \in PasswordInputs, s \in Salts :
          ( /\ \E r \in db.Users : r.username = u
            /\ attemptJoin(u, p, GoodUrl, s) )
          => ( /\ p # "" => last'.result = "UsernameTaken"
               /\ p = "" => last'.result = "InvalidInput"
               /\ db' = db )]_vars

C7_Witness ==
    /\ last = [op |-> "Join", result |-> "UsernameTaken"]
    /\ db.Users # {}
    /\ dbConnection = "None"

\* C8: a successful RequestJoin adds exactly one User row, pending and not an
\* administrator, for the requested username, and does not authenticate: the
\* session has no identity and holds no open connection afterwards.
C8_JoinAddsPendingRow ==
    [][\A u \in Usernames, p \in Passwords, s \in Salts :
          ( /\ Unauthenticated
            /\ attemptJoin(u, p, GoodUrl, s)
            /\ last'.result = "JoinRequested" )
          => ( /\ \E row \in db'.Users :
                     /\ row \notin db.Users
                     /\ db'.Users = db.Users \cup {row}
                     /\ row.username = u /\ row.is_pending /\ ~row.is_admin
                     /\ MadeFrom(row, p)
               /\ db'.TeamInfo = db.TeamInfo /\ db'.Roles = db.Roles
               /\ currentUser' = None /\ dbConnection' = "None" )]_vars

C8_Witness ==
    /\ last = [op |-> "Join", result |-> "JoinRequested"]
    /\ \E row \in db.Users : row.is_pending /\ ~row.is_admin
    /\ Unauthenticated /\ dbConnection = "None"

\* C9: from Unauthenticated the session becomes Authenticated only by a
\* successful login of an approved user with the right password or by a
\* successful CreateTeam; a pending login, a failed login and every
\* RequestJoin leave it Unauthenticated.
C9_OnlyLoginOrCreateAuthenticates ==
    [][/\ (Unauthenticated /\ Authenticated')
           => \/ last' = [op |-> "Login", result |-> "Authenticated"]
              \/ /\ last' = [op |-> "Create", result |-> "Authenticated"]
                 /\ \E r \in db'.Users : r.is_admin /\ currentUser' = Some(Identity(r))
       /\ \A u \in Usernames, p \in Passwords :
             (Unauthenticated /\ last'.op = "Login" /\ attemptLogin(u, p, GoodUrl)
                 /\ Authenticated')
             => \E r \in db.Users :
                   /\ r.username = u /\ ~r.is_pending /\ MadeFrom(r, p)
                   /\ currentUser' = Some(Identity(r))
       /\ (Unauthenticated /\ last'.op = "Join") => Unauthenticated'
       /\ (Unauthenticated /\ last'.op = "Login" /\ last'.result # "Authenticated")
           => Unauthenticated']_vars

C9_Witness ==
    /\ last = [op |-> "Login", result |-> "Authenticated"]
    /\ Authenticated /\ dbConnection = "open" /\ teamInfo # None
    /\ \E r \in db.Users : ~r.is_pending /\ currentUser = Some(Identity(r))

\* C10: a logout from an authenticated session ends unauthenticated: the
\* connection is closed, the identity and the team info are cleared, and the
\* remembered database URL is the only thing kept.
C10_LogoutClearsSession ==
    [][(Authenticated /\ logout)
          => ( /\ dbConnection' = "None" /\ currentUser' = None /\ teamInfo' = None
               /\ dbUrlUsed' = dbUrlUsed /\ dbUrlUsed' # "" )]_vars

C10_Witness ==
    /\ last = [op |-> "Logout", result |-> "LoggedOut"]
    /\ dbConnection = "None" /\ Unauthenticated /\ teamInfo = None
    /\ dbUrlUsed = GoodUrl /\ db.TeamInfo # {}

\* C11: at most one connection is open in the process at any time: a handler
\* that connects while a connection is held closes the held one first, so no
\* opened connection is left open without being the one the process holds.
C11_NoOrphanedConnection == leaked = 0

\* the outcomes of Login, RequestJoin and CreateTeam that are errors
ErrorOutcomes == {"ConnectionError", "InvalidCredentials", "InvalidInput", "UsernameTaken",
                  "CreationFailed", "InconsistentState"}

\* C12: a Login, RequestJoin or CreateTeam that ends in an error leaves the
\* session as it was before the operation: identity, team info and the held
\* connection are unchanged.
C12_ErrorsKeepSession ==
    [][(last'.op \in {"Login", "Join", "Create"} /\ last'.result \in ErrorOutcomes)
          => UNCHANGED <<currentUser, teamInfo, dbConnection>>]_vars

\* C13: removeSelectedUser with the session's own user selected is denied and
\* deletes no row, whether or not that user is an administrator.
C13_NoSelfRemoval ==
    [][(Authenticated /\ last'.op = "Remove") =>
       \A yes \in BOOLEAN :
          removeSelectedUser(currentUser[1].user_id, yes)
          => (last'.result = "ActionDenied" /\ db' = db)]_vars

C13_Witness ==
    /\ last = [op |-> "Remove", result |-> "ActionDenied"]
    /\ Authenticated
    /\ \E u \in db.Users : u.user_id = currentUser[1].user_id /\ u.username = currentUser[1].username
    /\ currentUser[1].user_id \in ActiveIids

\* C14: CreateTeam accepts a team number only if it is a positive integer:
\* zero, a negative integer and text that is no integer are refused with
\* InvalidInput before the registry is asked or a connection is opened.
C14_PositiveTeamNumber ==
    [][(last'.op = "Create") =>
       \A n \in {"0", "-7", "abc"}, api \in ApiOutcomes, proceedAnyway \in BOOLEAN,
          wipe \in BOOLEAN, k \in {0, FaultTeamInsert, FaultUserInsert}, s \in Salts :
          attemptCreateTeam("alice", "pw1", GoodUrl, n, "RoboDevils", "teampw",
                            api, proceedAnyway, wipe, k, s)
          => ( /\ last'.result = "InvalidInput"
               /\ UNCHANGED <<db, dbConnection, leaked, currentUser, teamInfo>> )]_vars

\* the handler showed its validation warning and touched nothing
RefusedAsInvalid ==
    /\ last'.result = "InvalidInput"
    /\ UNCHANGED <<db, dbConnection, leaked, currentUser, teamInfo, dbUrlUsed, topFrame>>

\* C15: validation precedes external effects: Login, RequestJoin or
\* CreateTeam given an empty required field, and RequestJoin or CreateTeam
\* given a malformed database URL, end with InvalidInput and have neither
\* opened a connection nor asked the registry, whatever either would answer.
C15_ValidationFirst ==
    [][/\ (last'.op = "Login") =>
          \A u \in UsernameInputs, p \in PasswordInputs, url \in UrlInputs :
             ((u = "" \/ p = "" \/ (dbUrlUsed = "" /\ url = "")) /\ attemptLogin(u, p, url))
             => RefusedAsInvalid
       /\ (last'.op = "Join") =>
          \A u \in UsernameInputs, p \in PasswordInputs, url \in UrlInputs, s \in Salts :
             ((u = "" \/ p = "" \/ url \in {"", BadUrl}) /\ attemptJoin(u, p, url, s))
             => RefusedAsInvalid
       /\ (last'.op = "Create") =>
          \A f \in DefectiveCreateForms, api \in {"200_team", "200_null"}, s \in Salts :
             attemptCreateTeam(f.u, f.p, f.url, f.n, f.tn, f.tp, api, FALSE, TRUE, 0, s)
             => RefusedAsInvalid]_vars

\* a refusal while a connection is held: connecting would have replaced it
C15_Witness ==
    /\ last.result = "InvalidInput"
    /\ dbConnection = "open"
    /\ leaked = 0

\* C16: the registry lookup is only a confirmation gate: for every answer
\* other than "the team exists" CreateTeam asks for an override; declined, it
\* stops with no connection opened and nothing changed; given, it goes on
\* exactly as when the team exists.  No answer by itself makes it fail.
C16_LookupIsGate ==
    [][(last'.op = "Create") =>
       \A api \in ApiOutcomes \ {"200_team"}, wipe \in BOOLEAN,
          k \in {0, FaultTeamInsert, FaultUserInsert}, s \in Salts :
          /\ attemptCreateTeam("alice", "pw1", GoodUrl, "254", "RoboDevils", "teampw",
                               api, FALSE, wipe, k, s)
             => ( /\ last'.result = "Cancelled"
                  /\ UNCHANGED <<db, dbConnection, leaked, currentUser, teamInfo, dbUrlUsed,
                                 topFrame>> )
          /\ attemptCreateTeam("alice", "pw1", GoodUrl, "254", "RoboDevils", "teampw",
                               api, TRUE, wipe, k, s)
             => attemptCreateTeam("alice", "pw1", GoodUrl, "254", "RoboDevils", "teampw",
                                  "200_team", FALSE, wipe, k, s)]_vars

\* C17: whatever sequence of Login, RequestJoin, CreateTeam (overriding or
\* not), admin operations and Logout a single client runs, the Team table
\* holds at most one row.
C17_AtMostOneTeam == Cardinality(db.TeamInfo) <= 1

\* a second CreateTeam, under another number, went through after the
\* administration panel had been used on the first team
C17_Witness ==
    /\ last = [op |-> "Create", result |-> "Authenticated"]
    /\ \E t \in db.TeamInfo : t.team_number = 0
    /\ roleMap # {} /\ activeUsersTree # {}

\* C18: whatever sequence of RequestJoin, CreateTeam, approve, reject and
\* remove produced the database, no two User rows carry the same username.
C18_UniqueUsernames ==
    \A u1 \in db.Users, u2 \in db.Users : u1.username = u2.username => u1 = u2

\* a join request under a name that is taken was turned away, with two
\* differently named rows in the table
C18_Witness ==
    /\ last = [op |-> "Join", result |-> "UsernameTaken"]
    /\ Cardinality(db.Users) = 2
    /\ Cardinality({u.username : u \in db.Users}) = 2

\* C19: when the panel removes a user, afterwards no Attendance row carries
\* that user_id; every Guide the user created and every GuideVideo the user
\* added is still there, with its creator / adder reference NULL and nothing
\* else changed; the rows of every other user, in Users, Attendance, Guides
\* and GuideVideos, are what they were, and no row appears.
C19_RemovalForeignKeys ==
    [][(last'.op = "Remove" /\ last'.result = "Success") =>
         \A sel \in ActiveIids :
            removeSelectedUser(sel, TRUE) =>
               /\ db'.Users = {u \in db.Users : u.user_id # sel}
               /\ \A a \in db'.Attendance : a.user_id # sel
               /\ db'.Attendance = {a \in db.Attendance : a.user_id # sel}
               /\ \A g \in db.Guides :
                     IF g.created_by_user_id = sel
                     THEN [g EXCEPT !.created_by_user_id = NULL] \in db'.Guides
                     ELSE g \in db'.Guides
               /\ \A v \in db.GuideVideos :
                     IF v.added_by_user_id = sel
                     THEN [v EXCEPT !.added_by_user_id = NULL] \in db'.GuideVideos
                     ELSE v \in db'.GuideVideos
               /\ {g.guide_id : g \in db'.Guides} = {g.guide_id : g \in db.Guides}
               /\ {v.video_id : v \in db'.GuideVideos} = {v.video_id : v \in db.GuideVideos}
               /\ Cardinality(db'.Guides) = Cardinality(db.Guides)
               /\ Cardinality(db'.GuideVideos) = Cardinality(db.GuideVideos)
               /\ db'.Meetings = db.Meetings]_vars

\* a removal went through that left a guide and a video without their author,
\* next to a meeting's attendance record of somebody who stays
C19_Witness ==
    /\ last = [op |-> "Remove", result |-> "Success"]
    /\ \E g \in db.Guides : g.created_by_user_id = NULL
    /\ \E v \in db.GuideVideos : v.added_by_user_id = NULL
    /\ \E m \in db.Meetings : Cardinality({a \in db.Attendance : a.meeting_id = m.meeting_id}) = 1

\* the statements of Statements, by name
StatementNames == {q.sql : q \in Statements}

\* the call fails: no open connection, or the statement raises
QueryFails(q) == dbConnection # "open" \/ StatementRaises(db, q)

C21_RoundTrip ==
    [][\A u \in Usernames, p \in Passwords :
          ( /\ Unauthenticated /\ dbConnection = "None" /\ last'.op = "Login"
            /\ \E r \in db.Users : r.username = u /\ r.is_admin /\ ~r.is_pending /\ MadeFrom(r, p)
            /\ attemptLogin(u, p, GoodUrl) )
          => ( /\ last'.result = "Authenticated"
               /\ \E r \in db.Users : r.username = u /\ currentUser' = Some(Identity(r))
               /\ \E t \in db.TeamInfo : teamInfo' = Some(TeamDescriptor(t)) )]_vars

\* C22: a start of the program that finds a saved database URL shows the
\* login form (login mode) and not the first-run choice between Join and
\* Create.
C22_SavedUrlStartsInLogin ==
    (last.op = "Restart" /\ dbUrlUsed # "") => last.result = "login"

\* C23: a row that RequestJoin inserted is pending; the only step that turns a
\* pending row into an approved one is a successful approve in the panel; and
\* a login makes a row the session's identity only when that row is approved.
\* So every login as a joined row comes after an approve of that row.
C23_LoginOnlyAfterApprove ==
    [][/\ last'.op = "Join" => \A r \in db'.Users \ db.Users : r.is_pending
       /\ \A r \in db.Users, r2 \in db'.Users :
             (r.is_pending /\ r2.user_id = r.user_id /\ r2.username = r.username
                 /\ ~r2.is_pending)
             => last' = [op |-> "Approve", result |-> "Success"]
       /\ last' = [op |-> "Login", result |-> "Authenticated"]
             => \E r \in db.Users : ~r.is_pending /\ currentUser' = Some(Identity(r))]_vars

\* bob, who joined and was approved, is logged in
C23_Witness ==
    /\ last = [op |-> "Login", result |-> "Authenticated"]
    /\ currentUser # None /\ currentUser[1].username = "bob" /\ ~currentUser[1].is_admin
    /\ \E r \in db.Users : r.username = "bob" /\ ~r.is_pending /\ currentUser = Some(Identity(r))

\* C24: a reject deletes no row other than the selected one, and that one only
\* while it is pending; an approve leaves every row as it was except the
\* selected row while it is pending, of which only is_pending changes (to
\* false) when the statement ran; both leave every other table alone. This
\* holds also when the selection comes from a list loaded before the row was
\* removed.
C24_OnlyPendingRows ==
    [][/\ last'.op = "Reject" =>
             \A sel \in pendingUsersTree :
                rejectSelectedUser(sel, TRUE) =>
                   /\ db'.Users \subseteq db.Users
                   /\ \A r \in db.Users \ db'.Users : r.is_pending /\ r.user_id = sel
                   /\ [db' EXCEPT !.Users = db.Users] = db
       /\ last'.op = "Approve" =>
             \A sel \in pendingUsersTree :
                approveSelectedUser(sel, TRUE) =>
                   /\ \A r \in db.Users :
                         IF r.is_pending /\ r.user_id = sel /\ last'.result = "Success"
                         THEN [r EXCEPT !.is_pending = FALSE] \in db'.Users
                         ELSE r \in db'.Users
                   /\ Cardinality(db'.Users) = Cardinality(db.Users)
                   /\ [db' EXCEPT !.Users = db.Users] = db]_vars

\* an approve went through on a selection whose row is gone: only the
\* creator's row is in the table
C24_Witness ==
    /\ last = [op |-> "Approve", result |-> "Success"]
    /\ Cardinality(db.Users) = 1
    /\ \A r \in db.Users : r.is_admin

\* C25: after showFrame for the Admin panel with no current user or one who is
\* no administrator, the frame on top is the Dashboard; after showFrame for
\* any other page than Login with no current user, the frame on top is the
\* Login frame.
C25_FrameGuards ==
    last.op = "ShowFrame" =>
       /\ (last.result = "AdminFrame" /\ ~IsAdmin(currentUser)) => topFrame = "DashboardFrame"
       /\ (last.result \in Frames \ {"LoginFrame", "AdminFrame"} /\ currentUser = None)
             => topFrame = "LoginFrame"

\* C26: in every state the is_admin flag of the session identity is the
\* is_admin value stored in the current user's row.
C26_SessionAdminFlagFresh ==
    currentUser # None =>
       \A r \in db.Users :
          r.user_id = currentUser[1].user_id => r.is_admin = currentUser[1].is_admin

\* C27: a CreateTeam whose caller has not given the destructive-override
\* confirmation destroys no User row: every row the Users table held before
\* is still there afterwards.
C27_NoWipeWithoutConfirmation ==
    [][last'.op = "Create" =>
         \A n \in {"254", "99999999999"}, k \in {0, FaultTeamInsert}, s \in Salts :
            attemptCreateTeam("alice", "pw1", GoodUrl, n, "RoboDevils", "teampw", "200_team",
                              FALSE, FALSE, k, s)
            => db.Users \subseteq db'.Users]_vars

\* C28: between operations a current identity is set exactly when a database
\* connection is open and team info is loaded.
C28_SessionConsistent ==
    /\ currentUser # None <=> (dbConnection = "open" /\ teamInfo # None)
    /\ dbConnection = "open" => currentUser # None

\* C29: the admin operations (toggle admin, remove, approve, reject, assign
\* role) never take the last administrator away: when the Users table holds an
\* approved row with is_admin = true before one of them, it holds one after.
C29_AnAdminRemains ==
    [][( /\ last'.op \in {"ToggleAdmin", "Remove", "Approve", "Reject", "AssignRole"}
         /\ \E r \in db.Users : ~r.is_pending /\ r.is_admin )
       => \E r \in db'.Users : ~r.is_pending /\ r.is_admin]_vars

\* C30: when two clients have run CreateTeam with their statements
\* interleaved and both are through, the Team table holds at most one row and
\* every administrator row is the one of a client whose bootstrap completed
\* and whose Team row is the one in the table.
C30_RaceKeepsOneTeam ==
    (\A c \in RaceClients : race[c].pc \in {RaceDone, RaceFailed, RaceStopped}) =>
       /\ Cardinality(db.TeamInfo) <= 1
       /\ \A u \in db.Users :
             u.is_admin =>
                \E c \in RaceClients :
                   /\ race[c].pc = RaceDone
                   /\ u.username = RaceForm(c).admin
                   /\ \E t \in db.TeamInfo : t.team_number = RaceForm(c).number

====
